---- MODULE Spec2Model ----
(***************************************************************************)
(* nb_crossref: cross references (footnotes, equation tags) in Jupyter     *)
(* notebook files.                                                         *)
(*                                                                         *)
(* A file is a sequence of lines and a line is a sequence of tokens.  A    *)
(* token is one maximal piece of markup recognised by one of the regular   *)
(* expressions of the program, or a piece of other text.  Its kind names   *)
(* the surface syntax, its label is the text captured by the group of the  *)
(* regular expression:                                                     *)
(*   md_ref      [^L]                    md_def      [^L]:                 *)
(*   code_ref    `[^L]  (backtick before the bracket)                      *)
(*   html_ref    <a name=\"cite_ref-L\"></a>[<sup>[L]</sup>](#cite_note-L) *)
(*   html_def    <a name=\"cite_note-L\"></a>L.&nbsp;[^](#cite_ref-L)      *)
(*   old_ref     [<sup id=\"cite_ref-L\">[L]</sup>](#cite_note-L)          *)
(*   old_def     <span id=\"cite_note-L\">L.</span> [^](#cite_ref-L)       *)
(*   tag         \\tag{L}                eqref       \\eqref{L}            *)
(*   html_eqref  <!-- eqref -->(L)       text        anything else         *)
(*   TO_FOOTNOTE, FOOTNOTE, TAG, EQREF   {{{{KIND L}}}}                    *)
(* Labels are strings without markup delimiter characters.                 *)
(***************************************************************************)
EXTENDS Integers, Sequences, FiniteSets, TLC

VARIABLES
    args,        \* main: args.files, the sources given on the command line
    disk,        \* the file system: path -> lines of the file
    pc,          \* main: "loop" in the for loop, "done" after exit
    todo,        \* main: paths still to be visited by the for loops
    n_files,     \* main: n_files
    n_changed,   \* main: n_changed
    errors,      \* main: errors
    stdout,      \* lines printed to standard output
    stderr,      \* lines printed to standard error
    status,      \* exit status of the process
    calls,       \* the process_file calls made so far, with their locals
    nruns        \* number of runs of main started so far

vars == <<args, disk, pc, todo, n_files, n_changed, errors, stdout, stderr,
          status, calls, nruns>>

(***************************************************************************)
(* Bounds of the model.                                                    *)
(***************************************************************************)
MaxLines == 2
MaxLineLen == 2
MaxArgs == 2
MaxRuns == 2

(***************************************************************************)
(* Generic helpers.                                                        *)
(***************************************************************************)
Range(s) == {s[i] : i \in 1..Len(s)}

SeqsUpTo(S, n) == UNION {[1..k -> S] : k \in 0..n}

RECURSIVE Concat(_)
Concat(ss) == IF ss = <<>> THEN <<>> ELSE Head(ss) \o Concat(Tail(ss))

Token(k, l) == [kind |-> k, label |-> l]

Text == Token("text", "")

\* str(n)
Str(n) == ToString(n)

\* The integers a label of the model can denote.
Numbers == 0..(MaxLines * MaxLineLen + MaxLines + MaxLineLen)

\* str.isdigit() on a label
IsDigit(l) == \E n \in Numbers : Str(n) = l

\* int(l) for a label with l.isdigit()
ToInt(l) == CHOOSE n \in Numbers : Str(n) = l

\* An error line f"{msg}: {', '.join(items)}": the message and the list of
\* the items joined.
Error(msg, items) == [msg |-> msg, items |-> items]

(***************************************************************************)
(* remove_duplicates, pairwise                                             *)
(***************************************************************************)
RECURSIVE RemoveDuplicatesFrom(_, _)
RemoveDuplicatesFrom(seq, seen) ==
    IF seq = <<>> THEN <<>>
    ELSE IF Head(seq) \in seen THEN RemoveDuplicatesFrom(Tail(seq), seen)
    ELSE <<Head(seq)>> \o RemoveDuplicatesFrom(Tail(seq), seen \cup {Head(seq)})

\* A variant that keeps the duplicates.
remove_duplicates_kept(seq) == seq

remove_duplicates(seq) == RemoveDuplicatesFrom(seq, {})

pairwise(seq) ==
    IF Len(seq) < 2 THEN <<>>
    ELSE [i \in 1..(Len(seq) - 1) |-> <<seq[i], seq[i + 1]>>]

\* for i in xs: if i in seen: duplicates.append(i) else: seen.add(i)
RECURSIVE DuplicatesFrom(_, _)
DuplicatesFrom(xs, seen) ==
    IF xs = <<>> THEN <<>>
    ELSE IF Head(xs) \in seen THEN <<Head(xs)>> \o DuplicatesFrom(Tail(xs), seen)
    ELSE DuplicatesFrom(Tail(xs), seen \cup {Head(xs)})

Duplicates(xs) == DuplicatesFrom(xs, {})

\* for i in remove_duplicates(xs): if i not in others: not_found.append(i)
NotFound(xs, others) ==
    SelectSeq(remove_duplicates(xs), LAMBDA i : i \notin others)

(***************************************************************************)
(* Regular expressions on token lines.                                     *)
(***************************************************************************)
\* re.findall(r"{{{{KIND ([^}]+)}}}}", line), over all lines in order
FindAll(lines, kind) ==
    LET toks == SelectSeq(Concat(lines), LAMBDA t : t.kind = kind)
    IN  [i \in 1..Len(toks) |-> toks[i].label]

\* The replacement of one token by a pattern that matches exactly the tokens
\* of kind `from` and rewrites them to kind `to` with the same label.
Convert(from, to, t) == IF t.kind = from THEN <<Token(to, t.label)>> ELSE <<t>>

\* re.sub(pattern, repl, line) for such a pattern
ReSub(from, to, line) == Concat([i \in 1..Len(line) |-> Convert(from, to, line[i])])

(***************************************************************************)
(* relabel_tags                                                            *)
(***************************************************************************)
\* for i in labels: n += 1; label_map[i] = str(n)
RECURSIVE ScanLabels(_, _, _)
ScanLabels(labels, n, label_map) ==
    IF labels = <<>> THEN label_map
    ELSE ScanLabels(Tail(labels), n + 1,
                    (Head(labels) :> Str(n + 1)) @@ label_map)

LabelMap(input_lines, tag1) == ScanLabels(FindAll(input_lines, tag1), 0, <<>>)

\* A variant that renames the tokens of the first tag only.
relabel_func_tag1(t, label_map, tag1, tag2) ==
    IF t.kind = tag1 /\ t.label \in DOMAIN label_map
    THEN <<Token(t.kind, label_map[t.label])>>
    ELSE <<t>>

relabel_func(t, label_map, tag1, tag2) ==
    IF t.kind \in {tag1, tag2} /\ t.label \in DOMAIN label_map
    THEN <<Token(t.kind, label_map[t.label])>>
    ELSE <<t>>

\* A variant that numbers the labels of both tags in order of appearance.
relabel_tags_both(input_lines, tag1, tag2) ==
    LET toks == SelectSeq(Concat(input_lines), LAMBDA t : t.kind \in {tag1, tag2})
        label_map == ScanLabels([i \in 1..Len(toks) |-> toks[i].label], 0, <<>>)
    IN  [label_map |-> label_map,
         lines |-> IF DOMAIN label_map = {} THEN input_lines
                   ELSE [k \in 1..Len(input_lines) |->
                            Concat([i \in 1..Len(input_lines[k]) |->
                                       relabel_func(input_lines[k][i], label_map,
                                                    tag1, tag2)])]]

\* relabel_tags(input_lines, tag1, tag2): the lines returned, with the
\* label_map of the call.
relabel_tags(input_lines, tag1, tag2) ==
    LET label_map == LabelMap(input_lines, tag1)
    IN  [label_map |-> label_map,
         lines |-> IF DOMAIN label_map = {} THEN input_lines
                   ELSE [k \in 1..Len(input_lines) |->
                            Concat([i \in 1..Len(input_lines[k]) |->
                                       relabel_func(input_lines[k][i], label_map,
                                                    tag1, tag2)])]]

(***************************************************************************)
(* make_footnotes                                                          *)
(***************************************************************************)
\* r"(?<!`)\[\^([^\]]+)\]\s*:" -> {{{{FOOTNOTE \1}}}}
SubMdDef(line) == ReSub("md_def", "FOOTNOTE", line)

\* r"(?<!`)\[\^([^\]]+)\]" -> {{{{TO_FOOTNOTE \1}}}}; the pattern also matches
\* the bracket of a definition "[^L]:" and then leaves the colon behind.
SubMdRef(line) ==
    Concat([i \in 1..Len(line) |->
               IF line[i].kind = "md_ref" THEN <<Token("TO_FOOTNOTE", line[i].label)>>
               ELSE IF line[i].kind = "md_def"
                    THEN <<Token("TO_FOOTNOTE", line[i].label), Token("text", ":")>>
               ELSE <<line[i]>>])

\* A variant whose pattern expects unescaped quotation marks and so matches
\* nothing in a notebook file.
SubHtmlRefUnescaped(line) == line

\* r"<a name=\\\"cite_ref-([^\"]+)\\\"></a>\[<sup>\[\1\]</sup>\]\(#cite_note-\1\)"
SubHtmlRef(line) == ReSub("html_ref", "TO_FOOTNOTE", line)

\* r"<a name=\\\"cite_note-([^\"]+)\\\"></a>\1\.&nbsp;\[\^\]\(#cite_ref-\1\)"
SubHtmlDef(line) == ReSub("html_def", "FOOTNOTE", line)

\* r"\[<sup id=\\\"cite_ref-([^\"]+)\\\">\[\1\]</sup>\]\(#cite_note-\1\)"
SubOldRef(line) == ReSub("old_ref", "TO_FOOTNOTE", line)

\* r"<span id=\\\"cite_note-([^\"]+)\\\">\1\.</span> \[\^\]\(#cite_ref-\1\)"
SubOldDef(line) == ReSub("old_def", "FOOTNOTE", line)

\* The first loop of make_footnotes, for one line.
FootnoteMarkup(line) ==
    SubOldDef(SubOldRef(SubHtmlDef(SubHtmlRef(SubMdRef(SubMdDef(line))))))

\* The "Convert to HTML" loop of make_footnotes, for one line.
FootnoteHtml(line) ==
    ReSub("FOOTNOTE", "html_def", ReSub("TO_FOOTNOTE", "html_ref", line))

\* A variant with the comparison reversed.
WronglyOrderedReversed(footnotes) ==
    SelectSeq(pairwise(footnotes),
              LAMBDA p : IsDigit(p[1]) /\ IsDigit(p[2]) /\ ToInt(p[1]) < ToInt(p[2]))

\* for i, j in pairwise(footnotes): if i.isdigit() and j.isdigit() and int(i) > int(j)
WronglyOrdered(footnotes) ==
    SelectSeq(pairwise(footnotes),
              LAMBDA p : IsDigit(p[1]) /\ IsDigit(p[2]) /\ ToInt(p[1]) > ToInt(p[2]))

\* f'({i}, {j})'
PairStr(p) == "(" \o p[1] \o ", " \o p[2] \o ")"

\* if xs: errors.append(f"{msg}: {', '.join(xs)}")
Report(msg, xs) == IF xs # <<>> THEN <<Error(msg, xs)>> ELSE <<>>

FootnoteErrors(relabeled) ==
    LET cites == FindAll(relabeled, "TO_FOOTNOTE")
        footnotes == FindAll(relabeled, "FOOTNOTE")
        cites_not_found == NotFound(cites, Range(footnotes))
        footnotes_not_found == NotFound(footnotes, Range(cites))
        cites_duplicates == Duplicates(cites)
        footnotes_duplicates == Duplicates(footnotes)
        wrongly_ordered == WronglyOrdered(footnotes)
    IN  Report("Footnotes not found", cites_not_found)
        \o Report("Footnotes not referenced", footnotes_not_found)
        \o Report("Duplicated references of footnotes", cites_duplicates)
        \o Report("Duplicated footnotes", footnotes_duplicates)
        \o Report("Wrongly ordered footnotes",
                  [i \in 1..Len(wrongly_ordered) |-> PairStr(wrongly_ordered[i])])

\* A variant that numbers the footnotes in the order of their definitions.
make_footnotes_by_definition(input_lines) ==
    LET markup == [k \in 1..Len(input_lines) |-> FootnoteMarkup(input_lines[k])]
        relabel == relabel_tags(markup, "FOOTNOTE", "TO_FOOTNOTE")
        relabeled == relabel.lines
    IN  [markup |-> markup,
         label_map |-> relabel.label_map,
         relabeled |-> relabeled,
         output_lines |-> [k \in 1..Len(relabeled) |-> FootnoteHtml(relabeled[k])],
         errors |-> FootnoteErrors(relabeled)]

\* make_footnotes(input_lines, errors): the lines returned, the errors
\* appended, and the intermediate values of the call.
make_footnotes(input_lines) ==
    LET markup == [k \in 1..Len(input_lines) |-> FootnoteMarkup(input_lines[k])]
        relabel == relabel_tags(markup, "TO_FOOTNOTE", "FOOTNOTE")
        relabeled == relabel.lines
    IN  [markup |-> markup,
         label_map |-> relabel.label_map,
         relabeled |-> relabeled,
         output_lines |-> [k \in 1..Len(relabeled) |-> FootnoteHtml(relabeled[k])],
         errors |-> FootnoteErrors(relabeled)]

(***************************************************************************)
(* make_eqrefs                                                             *)
(***************************************************************************)
\* The first loop of make_eqrefs, for one line.
EqrefMarkup(line) ==
    ReSub("html_eqref", "EQREF", ReSub("eqref", "EQREF", ReSub("tag", "TAG", line)))

\* The "Convert to HTML" loop of make_eqrefs, for one line.
EqrefHtml(line) ==
    ReSub("EQREF", "html_eqref", ReSub("TAG", "tag", line))

EqrefErrors(relabeled) ==
    LET tags == FindAll(relabeled, "TAG")
        eqrefs == FindAll(relabeled, "EQREF")
        eqrefs_not_found == NotFound(eqrefs, Range(tags))
        tags_duplicates == Duplicates(tags)
    IN  Report("Tags not found", eqrefs_not_found)
        \o Report("Duplicated tags", tags_duplicates)

make_eqrefs(input_lines) ==
    LET markup == [k \in 1..Len(input_lines) |-> EqrefMarkup(input_lines[k])]
        relabel == relabel_tags(markup, "TAG", "EQREF")
        relabeled == relabel.lines
    IN  [markup |-> markup,
         label_map |-> relabel.label_map,
         relabeled |-> relabeled,
         output_lines |-> [k \in 1..Len(relabeled) |-> EqrefHtml(relabeled[k])],
         errors |-> EqrefErrors(relabeled)]

(***************************************************************************)
(* process_file                                                            *)
(***************************************************************************)
\* A variant that leaves a file with errors alone.
process_file_clean_only(path, input_lines) ==
    LET fn == make_footnotes(input_lines)
        eq == make_eqrefs(fn.output_lines)
        local_errors == fn.errors \o eq.errors
        output_lines == eq.output_lines
    IN  [path |-> path,
         input_lines |-> input_lines,
         footnotes |-> fn,
         eqrefs |-> eq,
         local_errors |-> local_errors,
         output_lines |-> output_lines,
         errors |-> IF local_errors # <<>>
                    THEN <<Error("Error: in file", path)>> \o local_errors
                    ELSE <<>>,
         changed |-> local_errors = <<>> /\ input_lines # output_lines]

\* The locals of process_file(path, errors) on a file with the given lines.
process_file(path, input_lines) ==
    LET fn == make_footnotes(input_lines)
        eq == make_eqrefs(fn.output_lines)
        local_errors == fn.errors \o eq.errors
        output_lines == eq.output_lines
    IN  [path |-> path,
         input_lines |-> input_lines,
         footnotes |-> fn,
         eqrefs |-> eq,
         local_errors |-> local_errors,
         output_lines |-> output_lines,
         errors |-> IF local_errors # <<>>
                    THEN <<Error("Error: in file", path)>> \o local_errors
                    ELSE <<>>,
         changed |-> input_lines # output_lines]

(***************************************************************************)
(* The file system and the command line.                                   *)
(***************************************************************************)
FileA == <<"a.ipynb">>

FileB == <<"nb", "b.ipynb">>

FileH == <<"nb", ".ipynb_checkpoints", "b.ipynb">>

DirNb == <<"nb">>

Files == {FileA, FileB, FileH}

\* Path.is_dir()
is_dir(path) == path = DirNb

\* source_path.glob("**/*.ipynb"), in the order the file system yields
glob(path) == IF path = DirNb THEN <<FileH, FileB>> ELSE <<>>

\* part.startswith(".")
StartsWithDot(part) == part \in {".ipynb_checkpoints"}

\* any(part.startswith(".") for part in path.parts)
Hidden(path) == \E i \in 1..Len(path) : StartsWithDot(path[i])

\* The paths the two for loops of main hand to do_process_file, in order.
Discover(files) ==
    Concat([i \in 1..Len(files) |->
               IF is_dir(files[i])
               THEN SelectSeq(glob(files[i]), LAMBDA p : ~Hidden(p))
               ELSE <<files[i]>>])

\* path.write_text("\n".join(output_lines) + "\n") and, in a later call,
\* path.read_text().splitlines(): the lines of the text written.
WriteText(output_lines) == IF output_lines = <<>> THEN <<<<>>>> ELSE output_lines

(***************************************************************************)
(* main                                                                    *)
(***************************************************************************)
n_files_str(nfiles) ==
    IF nfiles = 0 THEN "no files"
    ELSE IF nfiles = 1 THEN "1 file"
    ELSE Str(nfiles) \o " files"

\* str.capitalize() on a result of n_files_str
Capitalize(s) == IF s = "no files" THEN "No files" ELSE s

\* One call of do_process_file(path): the next step of the for loops.
DoProcessFile ==
    /\ pc = "loop"
    /\ todo # <<>>
    /\ LET path == Head(todo)
           r == process_file(path, disk[path])
       IN  /\ n_files' = n_files + 1
           /\ errors' = errors \o r.errors
           /\ calls' = Append(calls, r @@ [run |-> nruns])
           /\ IF r.changed
              THEN /\ disk' = [disk EXCEPT ![path] = WriteText(r.output_lines)]
                   /\ stdout' = Append(stdout, <<"Changed", path>>)
                   /\ n_changed' = n_changed + 1
              ELSE UNCHANGED <<disk, stdout, n_changed>>
    /\ todo' = Tail(todo)
    /\ UNCHANGED <<args, pc, stderr, status, nruns>>

\* The end of main: the summary, the errors and the exit status.
Summary ==
    /\ pc = "loop"
    /\ todo = <<>>
    /\ stdout' = Append(stdout,
                        <<Capitalize(n_files_str(n_files)) \o " processed. "
                          \o Capitalize(n_files_str(n_changed)) \o " changed.">>)
    /\ stderr' = errors
    /\ status' = IF errors # <<>> THEN 1 ELSE 0
    /\ pc' = "done"
    /\ UNCHANGED <<args, disk, todo, n_files, n_changed, errors, calls, nruns>>

\* The command is run again with the same arguments.
Main ==
    /\ pc = "done"
    /\ nruns < MaxRuns
    /\ nruns' = nruns + 1
    /\ pc' = "loop"
    /\ todo' = Discover(args)
    /\ n_files' = 0
    /\ n_changed' = 0
    /\ errors' = <<>>
    /\ stdout' = <<>>
    /\ stderr' = <<>>
    /\ status' = -1
    /\ UNCHANGED <<args, disk, calls>>

Next == DoProcessFile \/ Summary \/ Main

(***************************************************************************)
(* Documents.                                                              *)
(***************************************************************************)
Tokens(kinds, labels) == {Token(k, l) : k \in kinds, l \in labels}

LinesOver(alphabet) == SeqsUpTo(alphabet, MaxLineLen)

MarkdownFootnotes == Tokens({"md_ref", "md_def"}, {"a", "b"}) \cup {Text}

NumberedFootnotes == Tokens({"md_ref", "md_def"}, {"a", "1"})

Equations == Tokens({"tag", "eqref"}, {"a", "1"})

HtmlFootnotes ==
    Tokens({"html_ref"}, {"a", "1"}) \cup Tokens({"html_def", "old_ref", "old_def"}, {"1"})

Mixed ==
    Tokens({"md_ref", "md_def", "code_ref", "tag"}, {"a"}) \cup Tokens({"html_eqref"}, {"1"})

Alphabets ==
    {MarkdownFootnotes, NumberedFootnotes, Equations, HtmlFootnotes, Mixed}

\* Four files: nothing to do; rewritten without errors; rewritten with an
\* error; already rendered and left alone with an error.
BatchDocs ==
    { <<<<Text>>>>,
      <<<<Token("md_ref", "a")>>, <<Token("md_def", "a")>>>>,
      <<<<Token("md_ref", "a")>>>>,
      <<<<Token("html_ref", "1")>>>> }

Started ==
    /\ pc = "loop"
    /\ todo = Discover(args)
    /\ n_files = 0
    /\ n_changed = 0
    /\ errors = <<>>
    /\ stdout = <<>>
    /\ stderr = <<>>
    /\ status = -1
    /\ calls = <<>>
    /\ nruns = 1

\* One notebook, any document.
Init ==
    /\ args = <<FileA>>
    /\ \E alphabet \in Alphabets : \E n \in 0..MaxLines :
           \E input_lines \in [1..n -> LinesOver(alphabet)] :
               disk = [path \in {FileA} |-> input_lines]
    /\ Started

\* A batch of notebooks and directories.
InitMain ==
    /\ args \in SeqsUpTo({FileA, FileH, DirNb}, MaxArgs)
    /\ disk \in [Files -> BatchDocs]
    /\ Started

Spec == Init /\ [][Next]_vars

SpecMain == InitMain /\ [][Next]_vars

(***************************************************************************)
(* Vocabulary of the properties.                                           *)
(***************************************************************************)
\* The two relabelings of a process_file call: the values of relabel_tags
\* in make_footnotes and in make_eqrefs, with the tags passed to it.
Relabelings(c) ==
    { [markup |-> c.footnotes.markup, label_map |-> c.footnotes.label_map,
       relabeled |-> c.footnotes.relabeled,
       tag1 |-> "TO_FOOTNOTE", tag2 |-> "FOOTNOTE"],
      [markup |-> c.eqrefs.markup, label_map |-> c.eqrefs.label_map,
       relabeled |-> c.eqrefs.relabeled,
       tag1 |-> "TAG", tag2 |-> "EQREF"] }

AllRelabelings == UNION {Relabelings(calls[i]) : i \in 1..Len(calls)}

\* The index of the first and of the last occurrence of x in seq.
FirstIndex(seq, x) == CHOOSE i \in 1..Len(seq) : seq[i] = x /\ \A j \in 1..(i - 1) : seq[j] # x

LastIndex(seq, x) == CHOOSE i \in 1..Len(seq) : seq[i] = x /\ \A j \in (i + 1)..Len(seq) : seq[j] # x

NoRepeats(seq) == \A i, j \in 1..Len(seq) : seq[i] = seq[j] => i = j

\* The errors of a list that carry the message msg.
ErrorsOf(errs, msg) == SelectSeq(errs, LAMBDA e : e.msg = msg)

(***************************************************************************)
(* C8.  When the first tag passed to relabel_tags occurs with k distinct   *)
(* labels, the label map sends them to exactly 1..k in order of first      *)
(* appearance; a repeated occurrence of a label neither changes its number *)
(* nor consumes an integer.                                                *)
(***************************************************************************)
SequentialLabelMap ==
    \A r \in AllRelabelings :
        LET distinct == remove_duplicates(FindAll(r.markup, r.tag1))
        IN  /\ DOMAIN r.label_map = Range(distinct)
            /\ \A i \in 1..Len(distinct) : r.label_map[distinct[i]] = Str(i)

(***************************************************************************)
(* C9.  relabel_tags changes only label text: same number of lines, same   *)
(* tokens of the same kinds in the same order in every line; a token of    *)
(* one of the two tags whose label is a key of the label map carries the   *)
(* mapped integer, every other token is unchanged.                         *)
(***************************************************************************)
RelabelChangesOnlyLabels ==
    \A r \in AllRelabelings :
        /\ Len(r.relabeled) = Len(r.markup)
        /\ \A k \in 1..Len(r.markup) :
               /\ Len(r.relabeled[k]) = Len(r.markup[k])
               /\ \A j \in 1..Len(r.markup[k]) :
                      LET old == r.markup[k][j]
                          new == r.relabeled[k][j]
                      IN  /\ new.kind = old.kind
                          /\ IF old.kind \in {r.tag1, r.tag2} /\ old.label \in DOMAIN r.label_map
                             THEN new.label = r.label_map[old.label] /\ IsDigit(new.label)
                             ELSE new = old

\* A relabeling that renamed one token and passed another token of its tags,
\* whose label is not in the map, through.
RelabelChangesOnlyLabelsWitness ==
    \E r \in AllRelabelings :
        \E k1, k2 \in 1..Len(r.markup) :
            \E j1 \in 1..Len(r.markup[k1]) : \E j2 \in 1..Len(r.markup[k2]) :
                /\ r.relabeled[k1][j1].label # r.markup[k1][j1].label
                /\ r.markup[k2][j2].kind = r.tag2
                /\ r.markup[k2][j2].label \notin DOMAIN r.label_map
                /\ r.relabeled[k2][j2] = r.markup[k2][j2]

\* Every token of kind def carries the rank of its label among the distinct
\* labels of the tokens of kind def, in order of first appearance.
NumberedInOrderOf(markup, relabeled, def) ==
    LET distinct == remove_duplicates(FindAll(markup, def))
    IN  \A k \in 1..Len(markup) : \A j \in 1..Len(markup[k]) :
            markup[k][j].kind = def =>
                relabeled[k][j].label = Str(FirstIndex(distinct, markup[k][j].label))

(***************************************************************************)
(* C1.  Numbering follows definition order: make_footnotes gives "1" to    *)
(* the label whose definition appears earliest, "2" to the next distinct   *)
(* defined label, and so on, whatever the order of the references;         *)
(* make_eqrefs does the same with \tag definitions.                        *)
(***************************************************************************)
NumberingFollowsDefinitions ==
    \A i \in 1..Len(calls) :
        /\ NumberedInOrderOf(calls[i].footnotes.markup, calls[i].footnotes.relabeled, "FOOTNOTE")
        /\ NumberedInOrderOf(calls[i].eqrefs.markup, calls[i].eqrefs.relabeled, "TAG")

\* C1 as amended: the numbers follow the occurrences of the first tag of the
\* relabeling, the reference [^L] for footnotes and \tag for equations.  Every
\* token of either tag whose label occurs with the first tag carries the
\* position, among all occurrences of the first tag, of the last occurrence
\* of its label: 1, 2, ... in order of appearance when no label repeats.
NumberingFollowsFirstTag ==
    \A r \in AllRelabelings :
        LET occurrences == FindAll(r.markup, r.tag1)
        IN  \A k \in 1..Len(r.markup) : \A j \in 1..Len(r.markup[k]) :
                LET old == r.markup[k][j]
                IN  (old.kind \in {r.tag1, r.tag2} /\ old.label \in Range(occurrences)) =>
                        /\ r.relabeled[k][j].label = Str(LastIndex(occurrences, old.label))
                        /\ NoRepeats(occurrences) =>
                               r.relabeled[k][j].label
                                   = Str(FirstIndex(remove_duplicates(occurrences), old.label))

\* Footnotes referenced in one order and defined in the other order: the
\* definitions carry the numbers of the references.
NumberingFollowsFirstTagWitness ==
    \E r \in AllRelabelings :
        /\ r.tag1 = "TO_FOOTNOTE"
        /\ Len(FindAll(r.markup, "TO_FOOTNOTE")) = 2
        /\ NoRepeats(FindAll(r.markup, "TO_FOOTNOTE"))
        /\ FindAll(r.markup, "FOOTNOTE")
               = <<FindAll(r.markup, "TO_FOOTNOTE")[2], FindAll(r.markup, "TO_FOOTNOTE")[1]>>
        /\ FindAll(r.relabeled, "FOOTNOTE") = <<"2", "1">>

ReferencesOnly(fn) ==
    FindAll(fn.markup, "TO_FOOTNOTE") # <<>> /\ FindAll(fn.markup, "FOOTNOTE") = <<>>

DefinitionsOnly(fn) ==
    FindAll(fn.markup, "FOOTNOTE") # <<>> /\ FindAll(fn.markup, "TO_FOOTNOTE") = <<>>

\* The input with every rendered token in its markup form is the output
\* with every rendered token in its markup form: a rendered input is returned
\* identical.
RenderedAlike(fn, input_lines) ==
    \A k \in 1..Len(input_lines) :
        \A j \in 1..Len(input_lines[k]) :
            input_lines[k][j].kind \in {"html_ref", "html_def"} =>
                fn.output_lines[k][j] = input_lines[k][j]

(***************************************************************************)
(* C3.  No-definition short-circuit: for a document with footnote          *)
(* references and zero footnote definitions make_footnotes relabels        *)
(* nothing (every reference keeps its label) and reports an unresolved     *)
(* reference error that names the labels of the references.                *)
(***************************************************************************)
ReferencesOnlyShortCircuit ==
    \A i \in 1..Len(calls) :
        LET fn == calls[i].footnotes
        IN  ReferencesOnly(fn) =>
                /\ fn.relabeled = fn.markup
                /\ RenderedAlike(fn, calls[i].input_lines)
                /\ \E e \in Range(fn.errors) :
                       /\ e.msg = "Footnotes not found"
                       /\ Range(FindAll(fn.markup, "TO_FOOTNOTE")) \subseteq Range(e.items)

\* C3 as amended: the short circuit is taken when the document has no
\* footnote reference.  With definitions and zero references nothing is
\* relabeled and the unreferenced-definition error names the labels of the
\* definitions.  With references and zero definitions the references are
\* numbered and the unresolved-reference error names their numbers.
NoReferenceShortCircuit ==
    \A i \in 1..Len(calls) :
        LET fn == calls[i].footnotes
        IN  /\ DefinitionsOnly(fn) =>
                /\ DOMAIN fn.label_map = {}
                /\ fn.relabeled = fn.markup
                /\ RenderedAlike(fn, calls[i].input_lines)
                /\ ErrorsOf(fn.errors, "Footnotes not referenced")
                       = <<Error("Footnotes not referenced",
                                 remove_duplicates(FindAll(fn.markup, "FOOTNOTE")))>>
            /\ ReferencesOnly(fn) =>
                /\ \A x \in Range(FindAll(fn.relabeled, "TO_FOOTNOTE")) : IsDigit(x)
                /\ ErrorsOf(fn.errors, "Footnotes not found")
                       = <<Error("Footnotes not found",
                                 remove_duplicates(FindAll(fn.relabeled, "TO_FOOTNOTE")))>>

\* Definitions of a label that is not a number, without any reference, were
\* left alone and reported.
NoReferenceShortCircuitWitness ==
    \E i \in 1..Len(calls) :
        /\ DefinitionsOnly(calls[i].footnotes)
        /\ \E x \in Range(FindAll(calls[i].footnotes.relabeled, "FOOTNOTE")) : ~IsDigit(x)
        /\ ErrorsOf(calls[i].footnotes.errors, "Footnotes not referenced") # <<>>

\* Every label has exactly one definition and exactly one reference.
Paired(fn) ==
    /\ FindAll(fn.markup, "FOOTNOTE") # <<>>
    /\ NoRepeats(FindAll(fn.markup, "FOOTNOTE"))
    /\ NoRepeats(FindAll(fn.markup, "TO_FOOTNOTE"))
    /\ Range(FindAll(fn.markup, "FOOTNOTE")) = Range(FindAll(fn.markup, "TO_FOOTNOTE"))

(***************************************************************************)
(* C4.  When every footnote label has exactly one definition and exactly   *)
(* one reference, make_footnotes reports no out-of-order-definitions       *)
(* error, whatever the order of the references relative to the order of    *)
(* the definitions.                                                        *)
(***************************************************************************)
NoOutOfOrderWhenPaired ==
    \A i \in 1..Len(calls) :
        Paired(calls[i].footnotes) =>
            ErrorsOf(calls[i].footnotes.errors, "Wrongly ordered footnotes") = <<>>

\* C4 as amended: when every label has exactly one definition and exactly one
\* reference, every definition carries the number of its reference, and the
\* out-of-order error is reported exactly when two adjacent definitions are
\* written in the opposite order of their references; it lists those pairs.
OutOfOrderWhenPairedDiffers ==
    \A i \in 1..Len(calls) :
        LET fn == calls[i].footnotes
            cites == FindAll(fn.markup, "TO_FOOTNOTE")
            footnotes == FindAll(fn.markup, "FOOTNOTE")
            swapped == SelectSeq(pairwise(footnotes),
                                 LAMBDA p : FirstIndex(cites, p[1]) > FirstIndex(cites, p[2]))
        IN  Paired(fn) =>
                /\ FindAll(fn.relabeled, "FOOTNOTE")
                       = [n \in 1..Len(footnotes) |-> Str(FirstIndex(cites, footnotes[n]))]
                /\ ErrorsOf(fn.errors, "Wrongly ordered footnotes")
                       = IF swapped = <<>> THEN <<>>
                         ELSE <<Error("Wrongly ordered footnotes",
                                      [n \in 1..Len(swapped) |->
                                          PairStr(<<Str(FirstIndex(cites, swapped[n][1])),
                                                    Str(FirstIndex(cites, swapped[n][2]))>>)])>>

\* Two labels, each defined once and referenced once, the definitions in the
\* opposite order of the references: the error is reported.
OutOfOrderWhenPairedDiffersWitness ==
    \E i \in 1..Len(calls) :
        /\ Paired(calls[i].footnotes)
        /\ Len(FindAll(calls[i].footnotes.markup, "FOOTNOTE")) = 2
        /\ ErrorsOf(calls[i].footnotes.errors, "Wrongly ordered footnotes")
               = <<Error("Wrongly ordered footnotes", <<"(2, 1)">>)>>

(***************************************************************************)
(* C5.  For a document whose only equation markup is \tag{1} appearing     *)
(* twice, make_eqrefs appends exactly one duplicated-tags error line, and  *)
(* that line names the label 1.                                            *)
(***************************************************************************)
DuplicatedTagNamesLabel ==
    \A i \in 1..Len(calls) :
        LET eq == calls[i].eqrefs
        IN  (FindAll(eq.markup, "TAG") = <<"1", "1">> /\ FindAll(eq.markup, "EQREF") = <<>>) =>
                eq.errors = <<Error("Duplicated tags", <<"1">>)>>

\* The unresolved-reference checks of a call: the relabeled references and
\* definitions, and the error lines of the check.
UnresolvedChecks(c) ==
    { [refs |-> FindAll(c.footnotes.relabeled, "TO_FOOTNOTE"),
       defs |-> FindAll(c.footnotes.relabeled, "FOOTNOTE"),
       lines |-> ErrorsOf(c.footnotes.errors, "Footnotes not found")],
      [refs |-> FindAll(c.eqrefs.relabeled, "EQREF"),
       defs |-> FindAll(c.eqrefs.relabeled, "TAG"),
       lines |-> ErrorsOf(c.eqrefs.errors, "Tags not found")] }

AllUnresolvedChecks == UNION {UnresolvedChecks(calls[i]) : i \in 1..Len(calls)}

(***************************************************************************)
(* C6.  In make_footnotes and in make_eqrefs the unresolved-reference      *)
(* check produces at most one error line; the line lists exactly the       *)
(* reference labels of the relabeled document that do not occur among its  *)
(* definition labels, each once, in order of first occurrence; the line is *)
(* absent iff there is no such label.                                      *)
(***************************************************************************)
UnresolvedReferencesReportedOnce ==
    \A u \in AllUnresolvedChecks :
        LET missing == Range(u.refs) \ Range(u.defs)
        IN  /\ Len(u.lines) <= 1
            /\ u.lines = <<>> <=> missing = {}
            /\ \A n \in 1..Len(u.lines) :
                   LET items == u.lines[n].items
                   IN  /\ Range(items) = missing
                       /\ NoRepeats(items)
                       /\ \A a, b \in 1..Len(items) :
                              a < b => FirstIndex(u.refs, items[a]) < FirstIndex(u.refs, items[b])

\* Two unresolved labels, one of them referenced twice, are listed once each.
UnresolvedReferencesReportedOnceWitness ==
    \E u \in AllUnresolvedChecks :
        /\ Len(u.lines) = 1
        /\ Len(u.lines[1].items) = 2
        /\ Len(u.refs) > 2
        /\ Range(u.refs) = Range(u.lines[1].items)

\* Every token of kind `kind` whose label does not occur with kind `other` in
\* the markup is named, by the label it carries after relabeling, in an error
\* line with the message msg.
ReportedWithout(m, kind, other, msg) ==
    \A k \in 1..Len(m.markup) : \A j \in 1..Len(m.markup[k]) :
        (/\ m.markup[k][j].kind = kind
         /\ m.markup[k][j].label \notin Range(FindAll(m.markup, other))) =>
            \E e \in Range(m.errors) :
                e.msg = msg /\ m.relabeled[k][j].label \in Range(e.items)

(***************************************************************************)
(* C10.  Relabeling never merges distinct labels: after relabel_tags two   *)
(* tokens carry the same label only if they carried the same label before, *)
(* so a reference whose label has no definition in the input document is   *)
(* always reported as unresolved, and a footnote definition that no input  *)
(* reference points at is always reported as unreferenced.                 *)
(***************************************************************************)
RelabelingNeverMerges ==
    /\ \A r \in AllRelabelings :
           \A k1, k2 \in 1..Len(r.markup) :
               \A j1 \in 1..Len(r.markup[k1]) : \A j2 \in 1..Len(r.markup[k2]) :
                   (/\ r.markup[k1][j1].kind \in {r.tag1, r.tag2}
                    /\ r.markup[k2][j2].kind \in {r.tag1, r.tag2}
                    /\ r.relabeled[k1][j1].label = r.relabeled[k2][j2].label) =>
                       r.markup[k1][j1].label = r.markup[k2][j2].label
    /\ \A i \in 1..Len(calls) :
           /\ ReportedWithout(calls[i].footnotes, "TO_FOOTNOTE", "FOOTNOTE", "Footnotes not found")
           /\ ReportedWithout(calls[i].footnotes, "FOOTNOTE", "TO_FOOTNOTE", "Footnotes not referenced")
           /\ ReportedWithout(calls[i].eqrefs, "EQREF", "TAG", "Tags not found")

\* Call j is the first call on the file of call i after call i.
NextCallOn(i, j) ==
    /\ i < j
    /\ calls[i].path = calls[j].path
    /\ \A n \in (i + 1)..(j - 1) : calls[n].path # calls[i].path

(***************************************************************************)
(* C2.  Fixed point: when the output of make_footnotes followed by         *)
(* make_eqrefs is fed back in as input, the lines returned are identical   *)
(* to that input (the file is not changed on the second run) and the       *)
(* second run reports no error that the first run did not report.          *)
(***************************************************************************)
SecondRunChangesNothing ==
    \A i, j \in 1..Len(calls) :
        NextCallOn(i, j) =>
            /\ calls[j].input_lines = calls[i].output_lines
            /\ calls[j].output_lines = calls[j].input_lines
            /\ ~calls[j].changed
            /\ Range(calls[j].local_errors) \subseteq Range(calls[i].local_errors)
            /\ calls[i].local_errors = <<>> => calls[j].local_errors = <<>>

\* A file of Markdown or legacy markup was rewritten with errors by the first
\* run and processed again.
SecondRunChangesNothingWitness ==
    \E i, j \in 1..Len(calls) :
        /\ NextCallOn(i, j)
        /\ calls[i].changed
        /\ calls[i].local_errors # <<>>
        /\ \E k \in 1..Len(calls[i].input_lines) :
               \E t \in Range(calls[i].input_lines[k]) : t.kind \in {"old_ref", "old_def"}

\* The process_file calls of the current run of main.
CurrentCalls == SelectSeq(calls, LAMBDA c : c.run = nruns)

\* The state of the loop agrees with the discovery order, and the process
\* has exited only with nothing left to do.
BatchInOrder ==
    /\ [n \in 1..Len(CurrentCalls) |-> CurrentCalls[n].path] \o todo = Discover(args)
    /\ n_files = Len(CurrentCalls)
    /\ LET written == SelectSeq(CurrentCalls, LAMBDA c : c.output_lines # c.input_lines)
           changes == [n \in 1..Len(written) |-> <<"Changed", written[n].path>>]
       IN  /\ n_changed = Len(written)
           /\ IF pc = "done"
              THEN SubSeq(stdout, 1, Len(stdout) - 1) = changes
              ELSE stdout = changes
    /\ pc = "loop" => status = -1
    /\ pc = "done" =>
           /\ todo = <<>>
           /\ status \in {0, 1}
           /\ status = 1 <=> \E n \in 1..Len(CurrentCalls) : CurrentCalls[n].local_errors # <<>>
           /\ stderr = Concat([n \in 1..Len(CurrentCalls) |-> CurrentCalls[n].errors])

\* One step of the loop reads one file and writes it iff its lines changed.
BatchStep ==
    Len(calls') > Len(calls) =>
        LET c == calls'[Len(calls')]
        IN  /\ calls' = Append(calls, c)
            /\ c.path = Head(todo)
            /\ c.input_lines = disk[c.path]
            /\ disk'[c.path] = c.output_lines
            /\ disk' # disk <=> c.output_lines # c.input_lines
            /\ \A path \in DOMAIN disk : path # c.path => disk'[path] = disk[path]
            /\ status' = -1

(***************************************************************************)
(* C7.  Errors never block the batch: every document is processed, in      *)
(* discovery order; a document is rewritten iff its final lines differ     *)
(* from its input lines, with or without errors; the abnormal exit happens *)
(* only after all documents were processed and all writes performed, and   *)
(* iff at least one document produced an error.                            *)
(***************************************************************************)
ErrorsNeverBlockTheBatch == []BatchInOrder /\ [][BatchStep]_vars

\* The run has exited abnormally after a file with an error was rewritten
\* and a later file was rewritten too.
ErrorsNeverBlockTheBatchWitness ==
    /\ pc = "done"
    /\ status = 1
    /\ \E a, b \in 1..Len(CurrentCalls) :
           /\ a < b
           /\ CurrentCalls[a].local_errors # <<>>
           /\ CurrentCalls[a].changed
           /\ CurrentCalls[b].changed
           /\ CurrentCalls[b].path # CurrentCalls[a].path

====
